---- MODULE Spec2Model ----
(***************************************************************************)
(* lordlogger: the ingestion loop of src/main.rs.  Packets of a LORD       *)
(* inertial/GNSS sensor are polled, decoded field by field and inserted    *)
(* into the PostgreSQL tables imu_data and gnss_data.                      *)
(*                                                                         *)
(* A field is its sequence of bytes (each in 0..255).  A decoded scalar    *)
(* is a record [ty, raw]: its Rust type and the bytes it was read from;    *)
(* a scalar produced by an integer cast is [ty, int], its numeric value.   *)
(***************************************************************************)
EXTENDS Integers, Sequences, FiniteSets, TLC

VARIABLES
    pc,         \* position of main: "Idle" (loop head), "Dispatching", "Exited"
    packet,     \* the packet bound by `if let Some(packet)`, or NoPacket
    exit,       \* how main ended: NotExited, an Err value, or a panic
    imu_data,   \* rows of table imu_data, in insertion order
    gnss_data,  \* rows of table gnss_data, in insertion order
    arrived,    \* history: every packet get_data() has returned, in order
    trace       \* history: decode / insert / ignore events, in order

vars == <<pc, packet, exit, imu_data, gnss_data, arrived, trace>>

-----------------------------------------------------------------------------
(* Bounds of the model *)

\* packets the sensor delivers in one run
MaxPackets == 2

\* byte patterns the sensor fills its fields with: seeds 0..MaxSeed
MaxSeed == 1

-----------------------------------------------------------------------------
(* Program constants *)

\* match arm `0x80 =>`
DESC_IMU == 128

\* match arm `0x81 =>`
DESC_GNSS == 129

NoPacket == [descriptor |-> -1]

NotExited == [kind |-> "Running"]

\* tags requested by ImuData::new, in evaluation order
ImuTags == <<4, 5, 6, 23, 7, 8, 10, 12, 18>>

\* tags read by the 0x81 arm, in evaluation order
GnssTags == <<3, 4, 5, 6, 7, 9, 11>>

Range(s) == {s[i] : i \in DOMAIN s}

-----------------------------------------------------------------------------
(* lordserial: Field::extract::<T>(offset) and Payload::get_field(tag) *)

SizeOf(ty) ==
    CASE ty = "i8"  -> 1
      [] ty = "i16" -> 2
      [] ty = "f32" -> 4
      [] ty = "f64" -> 8

Ok(v) == [kind |-> "Ok", v |-> v]

Err(e) == [kind |-> "Err", err |-> e]

Panic(m) == [kind |-> "Panic", msg |-> m]

\* field.extract::<ty>(off): the bytes off .. off+size-1, or OutOfBounds
extract(field, ty, off) ==
    IF off + SizeOf(ty) > Len(field)
    THEN Err("OutOfBounds")
    ELSE Ok([ty |-> ty, raw |-> SubSeq(field, off + 1, off + SizeOf(ty))])

\* payload.get_field(tag): Option<&Field>
get_field(p, tag) ==
    IF tag \in DOMAIN p.payload THEN Ok(p.payload[tag]) ELSE [kind |-> "None"]

\* Option::unwrap: the value, or a panic
unwrap(opt, tag) ==
    IF opt.kind = "None" THEN Panic(<<"unwrap on None", tag>>) ELSE opt

\* the first result of rs that is not Ok (what `?` / a panic ends the
\* evaluation with), or Ok(the sequence of all values)
RECURSIVE FirstFailure(_, _)
FirstFailure(rs, i) ==
    IF i > Len(rs) THEN Ok([k \in DOMAIN rs |-> rs[k].v])
    ELSE IF rs[i].kind # "Ok" THEN rs[i]
    ELSE FirstFailure(rs, i + 1)

Sequenced(rs) == FirstFailure(rs, 1)

\* get_field(tag).unwrap().extract::<ty>(off)
ReadTag(p, tag, ty, off) ==
    LET f == unwrap(get_field(p, tag), tag)
    IN  IF f.kind # "Ok" THEN f ELSE extract(f.v, ty, off)

-----------------------------------------------------------------------------
(* Composite decoders *)

\* variant: a decoder that keeps x and y and zero-fills a z it cannot read
Vector3f_extract_partial(field) ==
    LET r == Sequenced(<<extract(field, "f32", 0), extract(field, "f32", 4)>>)
        z == extract(field, "f32", 8)
    IN  IF r.kind # "Ok" THEN r
        ELSE Ok([x |-> r.v[1], y |-> r.v[2],
                 z |-> IF z.kind = "Ok" THEN z.v
                       ELSE [ty |-> "f32", raw |-> <<0, 0, 0, 0>>]])

\* Vector3f::extract
Vector3f_extract(field) ==
    LET r == Sequenced(<<extract(field, "f32", 0),
                         extract(field, "f32", 4),
                         extract(field, "f32", 8)>>)
    IN  IF r.kind # "Ok" THEN r
        ELSE Ok([x |-> r.v[1], y |-> r.v[2], z |-> r.v[3]])

\* Quaternion::extract
Quaternion_extract(field) ==
    LET r == Sequenced(<<extract(field, "f32", 0),
                         extract(field, "f32", 4),
                         extract(field, "f32", 8),
                         extract(field, "f32", 12)>>)
    IN  IF r.kind # "Ok" THEN r
        ELSE Ok([q0 |-> r.v[1], q1 |-> r.v[2], q2 |-> r.v[3], q3 |-> r.v[4]])

\* Vector3f::extract(packet.payload.get_field(tag).unwrap())
Vector3fOf(p, tag) ==
    LET f == unwrap(get_field(p, tag), tag)
    IN  IF f.kind # "Ok" THEN f ELSE Vector3f_extract(f.v)

\* Quaternion::extract(packet.payload.get_field(tag).unwrap())
QuaternionOf(p, tag) ==
    LET f == unwrap(get_field(p, tag), tag)
    IN  IF f.kind # "Ok" THEN f ELSE Quaternion_extract(f.v)

-----------------------------------------------------------------------------
(* Record assembler: ImuData::new *)

ImuData_new(p) ==
    LET r == Sequenced(<<Vector3fOf(p, 4),
                         Vector3fOf(p, 5),
                         Vector3fOf(p, 6),
                         ReadTag(p, 23, "f32", 0),
                         Vector3fOf(p, 7),
                         Vector3fOf(p, 8),
                         QuaternionOf(p, 10),
                         Vector3fOf(p, 12),
                         ReadTag(p, 18, "f64", 0),
                         ReadTag(p, 18, "i16", 8)>>)
    IN  IF r.kind # "Ok" THEN r
        ELSE Ok([accel          |-> r.v[1],
                 gyro           |-> r.v[2],
                 mag            |-> r.v[3],
                 baro           |-> r.v[4],
                 delta_theta    |-> r.v[5],
                 delta_velocity |-> r.v[6],
                 quat           |-> r.v[7],
                 euler_angles   |-> r.v[8],
                 tow            |-> r.v[9],
                 week           |-> r.v[10]])

-----------------------------------------------------------------------------
(* Storage schema: setup_psql *)

Col(n, t) == [name |-> n, type |-> t]

\* CREATE TABLE imu_data (without the SERIAL key)
ImuSchema ==
    <<Col("accel", "real3d"), Col("gyro", "real3d"), Col("mag", "real3d"),
      Col("baro", "real"), Col("delta_theta", "real3d"),
      Col("delta_velocity", "real3d"), Col("quat", "quaternion"),
      Col("euler_angles", "real3d"), Col("tow", "double precision"),
      Col("week", "smallint")>>

\* CREATE TABLE gnss_data (without the SERIAL key)
GnssSchema ==
    <<Col("latitude", "double precision"), Col("longitude", "double precision"),
      Col("ellipsoid_alt", "double precision"), Col("msl_alt", "double precision"),
      Col("horizontal_accuracy", "real"), Col("vertical_accuracy", "real"),
      Col("llh_flags", "smallint"),
      Col("ecefp_x", "double precision"), Col("ecefp_y", "double precision"),
      Col("ecefp_z", "double precision"), Col("ecefp_accuracy", "real"),
      Col("ecefp_flags", "smallint"),
      Col("ned_north", "real"), Col("ned_east", "real"), Col("ned_down", "real"),
      Col("ned_speed", "real"), Col("ned_ground_speed", "real"),
      Col("ned_heading", "real"), Col("ned_speed_accuracy", "real"),
      Col("ned_heading_accuracy", "real"), Col("ned_flags", "smallint"),
      Col("ecefv_x", "real"), Col("ecefv_y", "real"), Col("ecefv_z", "real"),
      Col("ecefv_accuracy", "real"), Col("ecefv_flags", "smallint"),
      Col("gdop", "real"), Col("pdop", "real"), Col("hdop", "real"),
      Col("vdop", "real"), Col("tdop", "real"), Col("ndop", "real"),
      Col("edop", "real"), Col("dop_flags", "smallint"),
      Col("tow", "double precision"), Col("week", "smallint"),
      Col("time_flags", "smallint"),
      Col("fix_type", "smallint"), Col("svs", "smallint"),
      Col("fix_flags", "smallint"), Col("fix_valid", "smallint")>>

-----------------------------------------------------------------------------
(* Persistence: the two INSERT statements of main *)

\* INSERT INTO imu_data ( <columns> )
ImuInsertColumns ==
    <<"accel", "gyro", "mag", "baro", "delta_theta", "delta_velocity",
      "quat", "euler_angles", "tow", "week">>

Row(args) == [row |-> TRUE, args |-> args]

Scalar(k) == [row |-> FALSE, args |-> <<k>>]

\* VALUES ( ROW($1, $2, $3), ..., $24, $25 )
ImuInsertValues ==
    <<Row(<<1, 2, 3>>), Row(<<4, 5, 6>>), Row(<<7, 8, 9>>), Scalar(10),
      Row(<<11, 12, 13>>), Row(<<14, 15, 16>>), Row(<<17, 18, 19, 20>>),
      Row(<<21, 22, 23>>), Scalar(24), Scalar(25)>>

\* variant: a parameter slice with the gyro and mag triples exchanged
ImuInsertParams_swapped(data) ==
    <<data.accel.x, data.accel.y, data.accel.z,
      data.mag.x, data.mag.y, data.mag.z,
      data.gyro.x, data.gyro.y, data.gyro.z,
      data.baro,
      data.delta_theta.x, data.delta_theta.y, data.delta_theta.z,
      data.delta_velocity.x, data.delta_velocity.y, data.delta_velocity.z,
      data.quat.q0, data.quat.q1, data.quat.q2, data.quat.q3,
      data.euler_angles.x, data.euler_angles.y, data.euler_angles.z,
      data.tow,
      data.week>>

\* the parameter slice &[&data.accel.x, ..., &data.week]
ImuInsertParams(data) ==
    <<data.accel.x, data.accel.y, data.accel.z,
      data.gyro.x, data.gyro.y, data.gyro.z,
      data.mag.x, data.mag.y, data.mag.z,
      data.baro,
      data.delta_theta.x, data.delta_theta.y, data.delta_theta.z,
      data.delta_velocity.x, data.delta_velocity.y, data.delta_velocity.z,
      data.quat.q0, data.quat.q1, data.quat.q2, data.quat.q3,
      data.euler_angles.x, data.euler_angles.y, data.euler_angles.z,
      data.tow,
      data.week>>

\* variant: a column list with latitude and longitude exchanged
GnssInsertColumns_swapped ==
    <<"longitude", "latitude", "ellipsoid_alt", "msl_alt",
      "horizontal_accuracy", "vertical_accuracy", "llh_flags",
      "ecefp_x", "ecefp_y", "ecefp_z", "ecefp_accuracy", "ecefp_flags",
      "ned_north", "ned_east", "ned_down", "ned_speed", "ned_ground_speed",
      "ned_heading", "ned_speed_accuracy", "ned_heading_accuracy", "ned_flags",
      "ecefv_x", "ecefv_y", "ecefv_z", "ecefv_accuracy", "ecefv_flags",
      "gdop", "pdop", "hdop", "vdop", "tdop", "ndop", "edop", "dop_flags",
      "tow", "week", "time_flags",
      "fix_type", "svs", "fix_flags", "fix_valid">>

\* INSERT INTO gnss_data( <columns> )
GnssInsertColumns ==
    <<"latitude", "longitude", "ellipsoid_alt", "msl_alt",
      "horizontal_accuracy", "vertical_accuracy", "llh_flags",
      "ecefp_x", "ecefp_y", "ecefp_z", "ecefp_accuracy", "ecefp_flags",
      "ned_north", "ned_east", "ned_down", "ned_speed", "ned_ground_speed",
      "ned_heading", "ned_speed_accuracy", "ned_heading_accuracy", "ned_flags",
      "ecefv_x", "ecefv_y", "ecefv_z", "ecefv_accuracy", "ecefv_flags",
      "gdop", "pdop", "hdop", "vdop", "tdop", "ndop", "edop", "dop_flags",
      "tow", "week", "time_flags",
      "fix_type", "svs", "fix_flags", "fix_valid">>

\* VALUES ($1, $2, ..., $41)
GnssInsertValues == [i \in 1..41 |-> Scalar(i)]

Rd(tag, ty, off) == [tag |-> tag, ty |-> ty, off |-> off, cast |-> FALSE]

RdAsI16(tag, ty, off) == [tag |-> tag, ty |-> ty, off |-> off, cast |-> TRUE]

\* the 41 parameter expressions of the gnss_data INSERT, in source order
GnssReads ==
    <<Rd(3, "f64", 0), Rd(3, "f64", 8), Rd(3, "f64", 16), Rd(3, "f64", 24),
      Rd(3, "f32", 32), Rd(3, "f32", 36), Rd(3, "i16", 40),
      Rd(4, "f64", 0), Rd(4, "f64", 8), Rd(4, "f64", 16),
      Rd(4, "f32", 24), Rd(4, "i16", 28),
      Rd(5, "f32", 0), Rd(5, "f32", 4), Rd(5, "f32", 8), Rd(5, "f32", 12),
      Rd(5, "f32", 16), Rd(5, "f32", 20), Rd(5, "f32", 24), Rd(5, "f32", 28),
      Rd(5, "i16", 32),
      Rd(6, "f32", 0), Rd(6, "f32", 4), Rd(6, "f32", 8), Rd(6, "f32", 12),
      Rd(6, "i16", 16),
      Rd(7, "f32", 0), Rd(7, "f32", 4), Rd(7, "f32", 8), Rd(7, "f32", 12),
      Rd(7, "f32", 16), Rd(7, "f32", 20), Rd(7, "f32", 24), Rd(7, "i16", 28),
      Rd(9, "f64", 0), Rd(9, "i16", 8), Rd(9, "i16", 10),
      RdAsI16(11, "i8", 0), RdAsI16(11, "i8", 1),
      Rd(11, "i16", 2), Rd(11, "i16", 4)>>

\* variant: a cast that zero-extends: the byte taken as an unsigned number
as_i16_zero_extended(v) == [ty |-> "i16", int |-> v.raw[1]]

\* `x as i16` for x: i8 -- the byte's bit pattern sign-extended to 16 bits,
\* read as a two's-complement number
as_i16(v) ==
    LET b      == v.raw[1]
        bits16 == IF b >= 128 THEN 65280 + b ELSE b
    IN  [ty  |-> "i16",
         int |-> IF bits16 >= 32768 THEN bits16 - 65536 ELSE bits16]

\* one parameter expression of the gnss_data INSERT
GnssParam(p, rd) ==
    LET r == ReadTag(p, rd.tag, rd.ty, rd.off)
    IN  IF r.kind # "Ok" THEN r
        ELSE IF rd.cast THEN Ok(as_i16(r.v)) ELSE r

\* the parameter slice of the gnss_data INSERT, evaluated left to right
GnssInsertParams(p) ==
    Sequenced([i \in DOMAIN GnssReads |-> GnssParam(p, GnssReads[i])])

\* the row the storage engine builds from `INSERT INTO t (cols) VALUES (vals)`
BindRow(cols, vals, params) ==
    [c \in Range(cols) |->
        LET i == CHOOSE k \in DOMAIN cols : cols[k] = c
        IN  IF vals[i].row
            THEN [k \in DOMAIN vals[i].args |-> params[vals[i].args[k]]]
            ELSE params[vals[i].args[1]]]

-----------------------------------------------------------------------------
(* The sensor: what lord.get_data() may return *)

\* field lengths the sensor sends for the IMU tags of setup_lord
ImuFieldLen ==
    [t \in Range(ImuTags) |->
        CASE t \in {4, 5, 6, 7, 8, 12} -> 12
          [] t = 23 -> 4
          [] t = 10 -> 16
          [] t = 18 -> 10]

\* field lengths the sensor sends for the GNSS tags of setup_lord
GnssFieldLen ==
    [t \in Range(GnssTags) |->
        CASE t = 3  -> 42
          [] t = 4  -> 30
          [] t = 5  -> 34
          [] t = 6  -> 18
          [] t = 7  -> 30
          [] t = 9  -> 12
          [] t = 11 -> 6]

Seeds == 0..MaxSeed

\* n bytes, all different within a field and shifted from tag to tag
Bytes(seed, tag, n) == [i \in 1..n |-> (100 * seed + 37 * tag + i - 1) % 256]

NoDefect == [kind |-> "none", tag |-> 0, len |-> 0]

\* every field one byte longer than the decoders read
Padded == [kind |-> "padded", tag |-> 0, len |-> 0]

\* one tag absent, or one field too short (empty, or one byte short)
Defects(tags, lenOf) ==
    {NoDefect, Padded}
    \cup {[kind |-> "missing", tag |-> t, len |-> 0] : t \in Range(tags)}
    \cup UNION {{[kind |-> "short", tag |-> t, len |-> l] :
                    l \in {0, lenOf[t] - 1}} : t \in Range(tags)}

MkPacket(desc, tags, lenOf, seed, d) ==
    [descriptor |-> desc,
     payload |->
        [t \in Range(tags) \ (IF d.kind = "missing" THEN {d.tag} ELSE {}) |->
            Bytes(seed, t, CASE d.kind = "short" /\ d.tag = t -> d.len
                             [] d.kind = "padded" -> lenOf[t] + 1
                             [] OTHER -> lenOf[t])]]

ImuPackets ==
    {MkPacket(DESC_IMU, ImuTags, ImuFieldLen, s, d) :
        s \in Seeds, d \in Defects(ImuTags, ImuFieldLen)}

GnssPackets ==
    {MkPacket(DESC_GNSS, GnssTags, GnssFieldLen, s, d) :
        s \in Seeds, d \in Defects(GnssTags, GnssFieldLen)}

\* descriptors the match does not name: 0x01 (base command), 0x82 (filter)
OtherDescriptors == {1, 130}

OtherPackets ==
    {MkPacket(desc, ImuTags, ImuFieldLen, s, NoDefect) :
        desc \in OtherDescriptors, s \in Seeds}

SensorPackets == ImuPackets \cup GnssPackets \cup OtherPackets

\* complete GNSS packets whose fix-quality bytes 0 and 1 run over all of 0..255
FixPackets ==
    {[descriptor |-> DESC_GNSS,
      payload |-> [t \in Range(GnssTags) |->
                     IF t = 11 THEN <<b, 255 - b, 2, 3, 4, 5>>
                     ELSE Bytes(0, t, GnssFieldLen[t])]] : b \in 0..255}

-----------------------------------------------------------------------------
(* History events *)

FetchEv(n) == [ev |-> "fetch", n |-> n]

DecodeEv(n, kind, ok) == [ev |-> "decode", n |-> n, kind |-> kind, ok |-> ok]

InsertEv(n, table, params, ok) ==
    [ev |-> "insert", n |-> n, table |-> table, params |-> params, ok |-> ok]

IgnoreEv(n) == [ev |-> "ignore", n |-> n]

-----------------------------------------------------------------------------
(* main *)

Init ==
    /\ pc = "Idle"
    /\ packet = NoPacket
    /\ exit = NotExited
    /\ imu_data = <<>>
    /\ gnss_data = <<>>
    /\ arrived = <<>>
    /\ trace = <<>>

\* variant: a `?` that swallows the error and goes on with the loop
AfterResult_continue(r) == "Idle"

\* `expr?` inside `loop`: Ok goes on to the next iteration, anything else
\* (an Err returned from main, or a panic) ends the process
AfterResult(r) == IF r.kind = "Ok" THEN "Idle" ELSE "Exited"

ExitOf(r) == IF r.kind = "Ok" THEN NotExited ELSE r

\* pg_client.execute(INSERT ...): the storage engine accepts or rejects it
ExecuteResults == {Ok(1), Err("StorageWriteError")}

\* variant: an INSERT that skips a row the table already holds
execute_dedup(table, cols, vals, params, res) ==
    IF res.kind = "Ok" /\ BindRow(cols, vals, params) \notin Range(table)
    THEN Append(table, BindRow(cols, vals, params))
    ELSE table

\* the table after `INSERT INTO table (cols) VALUES (vals)` ended with res
execute(table, cols, vals, params, res) ==
    IF res.kind = "Ok" THEN Append(table, BindRow(cols, vals, params)) ELSE table

\* variant: a fetch that does not wait for the previous packet to be dispatched
Fetch_NoWait(p) ==
    /\ pc \in {"Idle", "Dispatching"}
    /\ packet' = p
    /\ pc' = "Dispatching"
    /\ arrived' = Append(arrived, p)
    /\ trace' = Append(trace, FetchEv(Len(arrived) + 1))
    /\ UNCHANGED <<exit, imu_data, gnss_data>>

\* `if let Some(packet) = lord.get_data()` taken with packet p
Fetch(p) ==
    /\ pc = "Idle"
    /\ packet' = p
    /\ pc' = "Dispatching"
    /\ arrived' = Append(arrived, p)
    /\ trace' = Append(trace, FetchEv(Len(arrived) + 1))
    /\ UNCHANGED <<exit, imu_data, gnss_data>>

GetData ==
    /\ Len(arrived) < MaxPackets
    /\ \E p \in SensorPackets : Fetch(p)

\* lord.get_data() returned None: the loop polls again
GetDataNone ==
    /\ pc = "Idle"
    /\ UNCHANGED vars

\* the decode of the packet failed: nothing is executed
DecodeFailed(kind, r) ==
    /\ pc' = AfterResult(r)
    /\ exit' = ExitOf(r)
    /\ trace' = Append(trace, DecodeEv(Len(arrived), kind, FALSE))
    /\ UNCHANGED <<packet, imu_data, gnss_data, arrived>>

\* the statement was executed with params and ended with res
Executed(kind, table, params, res) ==
    /\ pc' = AfterResult(res)
    /\ exit' = ExitOf(res)
    /\ packet' = IF res.kind = "Ok" THEN NoPacket ELSE packet
    /\ trace' = trace \o <<DecodeEv(Len(arrived), kind, TRUE),
                           InsertEv(Len(arrived), table, params, res.kind = "Ok")>>
    /\ UNCHANGED arrived

\* match arm 0x80
DispatchImu ==
    /\ pc = "Dispatching"
    /\ packet.descriptor = DESC_IMU
    /\ LET data == ImuData_new(packet)
       IN  IF data.kind # "Ok"
           THEN DecodeFailed("imu", data)
           ELSE \E res \in ExecuteResults :
                   LET params == ImuInsertParams(data.v)
                   IN  /\ Executed("imu", "imu_data", params, res)
                       /\ imu_data' = execute(imu_data, ImuInsertColumns,
                                              ImuInsertValues, params, res)
                       /\ UNCHANGED gnss_data

\* match arm 0x81
DispatchGnss ==
    /\ pc = "Dispatching"
    /\ packet.descriptor = DESC_GNSS
    /\ LET args == GnssInsertParams(packet)
       IN  IF args.kind # "Ok"
           THEN DecodeFailed("gnss", args)
           ELSE \E res \in ExecuteResults :
                   /\ Executed("gnss", "gnss_data", args.v, res)
                   /\ gnss_data' = execute(gnss_data, GnssInsertColumns,
                                           GnssInsertValues, args.v, res)
                   /\ UNCHANGED imu_data

\* variant: an unknown descriptor treated as an error
DispatchOther_Fatal ==
    /\ pc = "Dispatching"
    /\ packet.descriptor \notin {DESC_IMU, DESC_GNSS}
    /\ pc' = "Exited"
    /\ exit' = Err("UnknownDescriptor")
    /\ trace' = Append(trace, IgnoreEv(Len(arrived)))
    /\ UNCHANGED <<packet, imu_data, gnss_data, arrived>>

\* match arm `_ => ()`
DispatchOther ==
    /\ pc = "Dispatching"
    /\ packet.descriptor \notin {DESC_IMU, DESC_GNSS}
    /\ pc' = "Idle"
    /\ packet' = NoPacket
    /\ trace' = Append(trace, IgnoreEv(Len(arrived)))
    /\ UNCHANGED <<exit, imu_data, gnss_data, arrived>>

Next ==
    \/ GetData
    \/ GetDataNone
    \/ DispatchImu
    \/ DispatchGnss
    \/ DispatchOther

Spec == Init /\ [][Next]_vars

\* one GNSS packet with arbitrary fix-quality bytes through the 0x81 arm
GetDataFix ==
    /\ arrived = <<>>
    /\ \E p \in FixPackets : Fetch(p)

NextFix ==
    \/ GetDataFix
    \/ DispatchGnss

SpecFix == Init /\ [][NextFix]_vars

-----------------------------------------------------------------------------
(* Vocabulary of the properties *)

Recognized(p) == p.descriptor \in {DESC_IMU, DESC_GNSS}

RequiredTags(p) ==
    IF p.descriptor = DESC_IMU THEN Range(ImuTags) ELSE Range(GnssTags)

\* offset + width of the last sub-value read from each required field
NeededLen(p, t) ==
    IF p.descriptor = DESC_IMU THEN ImuFieldLen[t] ELSE GnssFieldLen[t]

MissingTags(p) == RequiredTags(p) \ DOMAIN p.payload

\* every required tag is present and every sub-value lies inside its field
Complete(p) ==
    /\ MissingTags(p) = {}
    /\ \A t \in RequiredTags(p) : Len(p.payload[t]) >= NeededLen(p, t)

IsInsert(e) == e.ev = "insert"

IsOkInsert(e) == e.ev = "insert" /\ e.ok

IsFailure(e) == e.ev \in {"decode", "insert"} /\ ~e.ok

Inserts == SelectSeq(trace, IsInsert)

OkInsertsInto(table) ==
    SelectSeq(trace, LAMBDA e : IsOkInsert(e) /\ e.table = table)

\* the bytes off .. off+width-1 of field tag of packet p, typed ty
Sub(p, tag, ty, off, width) ==
    [ty |-> ty, raw |-> SubSeq(p.payload[tag], off + 1, off + width)]

\* the value of a byte read as a two's-complement 8-bit integer
Signed8(b) == IF b >= 128 THEN b - 256 ELSE b

-----------------------------------------------------------------------------
(* C1 *)

\* C1: all-or-nothing per packet.  An INSERT is issued only for a packet whose
\* required tags are all present and whose sub-values all lie inside their
\* fields; a packet with a missing tag or a short field has no INSERT and no
\* row, so each table holds at most one row per complete packet of its kind.
C1_AllOrNothing ==
    /\ \A k \in DOMAIN trace :
          IsInsert(trace[k]) =>
             /\ Recognized(arrived[trace[k].n])
             /\ Complete(arrived[trace[k].n])
    /\ Len(imu_data) <=
          Cardinality({n \in DOMAIN arrived :
                          arrived[n].descriptor = DESC_IMU /\ Complete(arrived[n])})
    /\ Len(gnss_data) <=
          Cardinality({n \in DOMAIN arrived :
                          arrived[n].descriptor = DESC_GNSS /\ Complete(arrived[n])})

\* a row was stored, then an incomplete IMU or GNSS packet was dispatched and
\* the number of rows did not change
C1_Witness ==
    /\ Len(arrived) = 2
    /\ Recognized(arrived[2]) /\ ~Complete(arrived[2])
    /\ \E k \in DOMAIN trace : trace[k].ev = "decode" /\ trace[k].n = 2
    /\ Len(imu_data) + Len(gnss_data) = 1

-----------------------------------------------------------------------------
(* C2 *)

\* C2: a packet whose descriptor is neither 0x80 nor 0x81 is dispatched with
\* no decode, no INSERT, no change of either table and no error, and the loop
\* is back at its head, ready to poll the next packet.
C2_OtherIgnored ==
    [][(pc = "Dispatching" /\ ~Recognized(packet)) =>
          /\ pc' = "Idle"
          /\ exit' = NotExited
          /\ imu_data' = imu_data
          /\ gnss_data' = gnss_data
          /\ Len(trace') = Len(trace) + 1
          /\ trace'[Len(trace')].ev \notin {"decode", "insert"}]_vars

\* an unrecognized packet was ignored and the next packet was polled
C2_Witness ==
    \E k \in DOMAIN trace :
        /\ trace[k].ev = "ignore"
        /\ ~Recognized(arrived[trace[k].n])
        /\ k < Len(trace)
        /\ trace[k + 1].ev = "fetch"
        /\ exit = NotExited

-----------------------------------------------------------------------------
(* C3 *)

\* C3: the loop has the two states Idle and Dispatching and no terminal
\* state: every step out of Dispatching leads back to Idle, whether the
\* decode or the write succeeded or failed.
C3_AlwaysBackToIdle ==
    [][pc = "Dispatching" => pc' = "Idle"]_vars

-----------------------------------------------------------------------------
(* C4 *)

\* C4: when a required tag is absent the assembly ends with the error value
\* MissingField(tag), returned like any other decode error, not with an abort.
C4_MissingFieldIsErr ==
    (/\ pc = "Exited"
     /\ Recognized(packet)
     /\ MissingTags(packet) # {})
    => /\ exit.kind = "Err"
       /\ \E t \in MissingTags(packet) : exit.err = <<"MissingField", t>>

-----------------------------------------------------------------------------
(* C5 *)

L(tag, ty, off) == [tag |-> tag, ty |-> ty, off |-> off]

V3(tag) == <<L(tag, "f32", 0), L(tag, "f32", 4), L(tag, "f32", 8)>>

\* the 25 parameters as the property lists them: tag, type and offset
C5_Layout ==
    V3(4) \o V3(5) \o V3(6) \o <<L(23, "f32", 0)>> \o V3(7) \o V3(8)
    \o <<L(10, "f32", 0), L(10, "f32", 4), L(10, "f32", 8), L(10, "f32", 12)>>
    \o V3(12) \o <<L(18, "f64", 0), L(18, "i16", 8)>>

\* the imu_data row the property describes for the parameters ps
C5_Row(ps) ==
    [accel          |-> <<ps[1], ps[2], ps[3]>>,
     gyro           |-> <<ps[4], ps[5], ps[6]>>,
     mag            |-> <<ps[7], ps[8], ps[9]>>,
     baro           |-> ps[10],
     delta_theta    |-> <<ps[11], ps[12], ps[13]>>,
     delta_velocity |-> <<ps[14], ps[15], ps[16]>>,
     quat           |-> <<ps[17], ps[18], ps[19], ps[20]>>,
     euler_angles   |-> <<ps[21], ps[22], ps[23]>>,
     tow            |-> ps[24],
     week           |-> ps[25]]

\* C5: every INSERT into imu_data comes from a descriptor-0x80 packet and
\* carries exactly 25 parameters, the i-th being the bytes of the tag, offset
\* and type the property lists at position i; the statement names the ten
\* columns in the order of the table, and each stored row binds the
\* parameters to accel, gyro, mag, baro, delta_theta, delta_velocity, quat,
\* euler_angles, tow and week in that order.
C5_ImuParameters ==
    /\ \A k \in DOMAIN trace :
          (IsInsert(trace[k]) /\ trace[k].table = "imu_data") =>
             LET p  == arrived[trace[k].n]
                 ps == trace[k].params
             IN  /\ p.descriptor = DESC_IMU
                 /\ Len(ps) = 25
                 /\ \A i \in 1..25 :
                       ps[i] = Sub(p, C5_Layout[i].tag, C5_Layout[i].ty,
                                   C5_Layout[i].off, SizeOf(C5_Layout[i].ty))
                 /\ ImuInsertColumns = [i \in DOMAIN ImuSchema |-> ImuSchema[i].name]
    /\ LET ok == OkInsertsInto("imu_data")
       IN  /\ Len(imu_data) = Len(ok)
           /\ \A m \in DOMAIN ok : imu_data[m] = C5_Row(ok[m].params)

\* a complete IMU packet was inserted
C5_Witness ==
    /\ Len(imu_data) >= 1
    /\ \E k \in DOMAIN trace :
          /\ IsOkInsert(trace[k]) /\ trace[k].table = "imu_data"
          /\ Complete(arrived[trace[k].n])

-----------------------------------------------------------------------------
(* C6 *)

\* bytes of a column of the declared SQL type
DeclaredWidth(type) ==
    CASE type = "double precision" -> 8
      [] type = "real" -> 4
      [] type = "smallint" -> 2

\* the Rust type the driver binds to a column of the declared SQL type
RustType(type) ==
    CASE type = "double precision" -> "f64"
      [] type = "real" -> "f32"
      [] type = "smallint" -> "i16"

\* sub-values per GNSS tag, in the order of GnssTags
C6_Counts == <<7, 5, 9, 5, 8, 3, 4>>

RECURSIVE SumFrom(_, _, _)
SumFrom(w, a, b) == IF a > b THEN 0 ELSE w[a] + SumFrom(w, a + 1, b)

\* position of the first column of tag group g
C6_Start(g) == 1 + SumFrom(C6_Counts, 1, g - 1)

\* the tag group column i belongs to
C6_Group(i) ==
    CHOOSE g \in DOMAIN C6_Counts :
        C6_Start(g) <= i /\ i < C6_Start(g) + C6_Counts[g]

\* every sub-value as wide as its column
C6_DeclaredWidths == [i \in 1..41 |-> DeclaredWidth(GnssSchema[i].type)]

C6_Widened == {"fix_type", "svs"}

\* fix_type and svs are one byte on the wire, the others as wide as the column
C6_ReadWidths ==
    [i \in 1..41 |->
        IF GnssSchema[i].name \in C6_Widened THEN 1 ELSE C6_DeclaredWidths[i]]

\* the sub-value of column i in packet p when the sub-values of a field lie
\* one after the other with the widths w
C6_Expected(w, p, i) ==
    LET g   == C6_Group(i)
        tag == GnssTags[g]
        off == SumFrom(w, C6_Start(g), i - 1)
    IN  IF w[i] = DeclaredWidth(GnssSchema[i].type)
        THEN Sub(p, tag, RustType(GnssSchema[i].type), off, w[i])
        ELSE [ty |-> "i16", int |-> Signed8(p.payload[tag][off + 1])]

\* the gnss_data INSERT under the sub-value widths w
C6_GnssInsert(w) ==
    /\ \A k \in DOMAIN trace :
          (IsInsert(trace[k]) /\ trace[k].table = "gnss_data") =>
             LET p  == arrived[trace[k].n]
                 ps == trace[k].params
             IN  /\ p.descriptor = DESC_GNSS
                 /\ Len(ps) = 41
                 /\ Len(GnssInsertColumns) = 41
                 /\ GnssInsertColumns =
                       [i \in DOMAIN GnssSchema |-> GnssSchema[i].name]
                 /\ \A i \in 1..41 : ps[i] = C6_Expected(w, p, i)
    /\ LET ok == OkInsertsInto("gnss_data")
       IN  /\ Len(gnss_data) = Len(ok)
           /\ \A m \in DOMAIN ok :
                 \A i \in 1..41 :
                    gnss_data[m][GnssSchema[i].name] = ok[m].params[i]

\* C6 as stated: every INSERT into gnss_data carries 41 parameters, the i-th
\* being the sub-value of the i-th column (7, 5, 9, 5, 8, 3 and 4 per tag),
\* each read with the declared width of its column at offsets that do not
\* overlap, and the column list agrees with the table position by position.
C6_DeclaredWidthReads == C6_GnssInsert(C6_DeclaredWidths)

\* C6 amended: as C6, but fix_type and svs are read as one byte each (at
\* offsets 0 and 1 of tag 0x0B) and widened to the 16 bits of their columns;
\* every other sub-value is read with the declared width of its column.
C6_GnssParameters == C6_GnssInsert(C6_ReadWidths)

\* a complete GNSS packet was inserted
C6_Witness ==
    /\ Len(gnss_data) >= 1
    /\ \E k \in DOMAIN trace :
          /\ IsOkInsert(trace[k]) /\ trace[k].table = "gnss_data"
          /\ Complete(arrived[trace[k].n])

-----------------------------------------------------------------------------
(* C7 *)

\* C7: in every INSERT into gnss_data, fix_type and svs (parameters 38 and
\* 39) are the bytes 0 and 1 of tag 0x0B read as signed 8-bit integers and
\* stored with the same value in 16 bits (-1 stays -1), and fix_flags and
\* fix_valid (parameters 40 and 41) are the 16-bit integers at offsets 2 and
\* 4, unchanged.
C7_SignExtension ==
    \A k \in DOMAIN trace :
        (IsInsert(trace[k]) /\ trace[k].table = "gnss_data") =>
           LET f  == arrived[trace[k].n].payload[11]
               ps == trace[k].params
           IN  /\ ps[38] = [ty |-> "i16", int |-> Signed8(f[1])]
               /\ ps[39] = [ty |-> "i16", int |-> Signed8(f[2])]
               /\ ps[38].int \in -128..127
               /\ ps[39].int \in -128..127
               /\ ps[40] = [ty |-> "i16", raw |-> <<f[3], f[4]>>]
               /\ ps[41] = [ty |-> "i16", raw |-> <<f[5], f[6]>>]

\* the byte 255 was stored as -1 and the byte 128 as -128
C7_Witness ==
    /\ \E k \in DOMAIN trace :
          /\ IsOkInsert(trace[k])
          /\ arrived[trace[k].n].payload[11][1] = 255
          /\ trace[k].params[38].int = -1
          /\ gnss_data[1]["fix_type"].int = -1
          /\ gnss_data[1]["svs"].int = 0

-----------------------------------------------------------------------------
(* C8 *)

\* C8: one packet at a time.  The loop holds a packet exactly while it
\* dispatches it, and that packet is the last one fetched; a packet is
\* fetched only when the previous one was ignored or written; and the INSERTs
\* are issued in the order of arrival, one for every recognized packet
\* fetched before, none skipped.
C8_OneAtATime ==
    /\ pc = "Idle" => packet = NoPacket
    /\ pc = "Dispatching" =>
          /\ arrived # <<>>
          /\ packet = arrived[Len(arrived)]
          /\ trace[Len(trace)] = FetchEv(Len(arrived))
    /\ \A k \in DOMAIN trace :
          trace[k].ev = "fetch" =>
             IF k = 1 THEN trace[k].n = 1
             ELSE /\ trace[k - 1].n = trace[k].n - 1
                  /\ \/ IsOkInsert(trace[k - 1])
                     \/ trace[k - 1].ev = "ignore"
    /\ \A i, j \in DOMAIN Inserts : i < j => Inserts[i].n < Inserts[j].n
    /\ \A i \in DOMAIN Inserts :
          \A n \in 1..(Inserts[i].n - 1) :
             Recognized(arrived[n]) => \E j \in 1..(i - 1) : Inserts[j].n = n

\* two recognized packets were written one after the other
C8_Witness ==
    /\ Len(Inserts) = 2
    /\ Inserts[1].n = 1
    /\ Inserts[2].n = 2
    /\ Inserts[1].ok

-----------------------------------------------------------------------------
(* C9 *)

\* C9: a failed decode (missing tag or read out of bounds) and a rejected
\* INSERT are the last thing the process does: it has exited with that error
\* or panic, nothing was fetched or written after it, and the failing packet
\* left no row -- the tables hold exactly the rows of the accepted INSERTs.
C9_FailureIsFatal ==
    /\ \A k \in DOMAIN trace :
          IsFailure(trace[k]) =>
             /\ k = Len(trace)
             /\ trace[k].n = Len(arrived)
             /\ pc = "Exited"
             /\ exit.kind \in {"Err", "Panic"}
    /\ \A n \in 1..(Len(arrived) - 1) :
          Recognized(arrived[n]) => Complete(arrived[n])
    /\ pc = "Exited" <=> exit # NotExited
    /\ pc = "Exited" => trace # <<>> /\ IsFailure(trace[Len(trace)])
    /\ Len(imu_data) = Len(OkInsertsInto("imu_data"))
    /\ Len(gnss_data) = Len(OkInsertsInto("gnss_data"))

\* after one row was stored, the INSERT of the second packet was rejected and
\* the process exited with one row in storage
C9_Witness ==
    /\ pc = "Exited"
    /\ exit = Err("StorageWriteError")
    /\ Len(arrived) = 2
    /\ Len(imu_data) + Len(gnss_data) = 1

-----------------------------------------------------------------------------
(* C10 *)

\* the packets of descriptor desc that were decoded and whose INSERT was
\* accepted, in order of arrival
C10_Written(desc) ==
    SelectSeq([n \in DOMAIN arrived |-> [n |-> n, p |-> arrived[n]]],
              LAMBDA a : /\ a.p.descriptor = desc
                         /\ \E k \in DOMAIN trace :
                               IsOkInsert(trace[k]) /\ trace[k].n = a.n)

\* C10: each table holds one row per packet of its descriptor that decoded
\* and whose INSERT was accepted, in order of arrival, with no deduplication
\* and never a row of the other kind; and equal packets give equal parameter
\* lists.
C10_OneRowPerPacket ==
    /\ Len(imu_data) = Len(C10_Written(DESC_IMU))
    /\ Len(gnss_data) = Len(C10_Written(DESC_GNSS))
    /\ \A m \in DOMAIN imu_data :
          imu_data[m] = BindRow(ImuInsertColumns, ImuInsertValues,
                           ImuInsertParams(ImuData_new(C10_Written(DESC_IMU)[m].p).v))
    /\ \A m \in DOMAIN gnss_data : DOMAIN gnss_data[m] = Range(GnssInsertColumns)
    /\ \A k \in DOMAIN trace :
          IsInsert(trace[k]) =>
             trace[k].table = IF arrived[trace[k].n].descriptor = DESC_IMU
                              THEN "imu_data" ELSE "gnss_data"
    /\ \A i, j \in DOMAIN Inserts :
          arrived[Inserts[i].n] = arrived[Inserts[j].n]
             => Inserts[i].params = Inserts[j].params

\* the same packet arrived twice and left two equal rows
C10_Witness ==
    /\ Len(arrived) = 2
    /\ arrived[1] = arrived[2]
    /\ \/ Len(imu_data) = 2 /\ imu_data[1] = imu_data[2]
       \/ Len(gnss_data) = 2 /\ gnss_data[1] = gnss_data[2]

====
